---- MODULE Spec2Model ----
(***************************************************************************)
(* Functional depth measures (skfda/exploratory/depth/_depth.py) and       *)
(* elastic metrics (skfda/misc/metrics/_elastic_metrics.py).               *)
(*                                                                         *)
(* Real numbers are exact rationals [n |-> numerator, d |-> denominator]   *)
(* with d > 0, kept in lowest terms.  NaN is the record [nan |-> TRUE].      *)
(***************************************************************************)
EXTENDS Integers, Sequences, FiniteSets, TLC

VARIABLES
    _distribution,       \* BandDepth._distribution: Unset or the fitted FDataGrid
    multivariate_depth,  \* per IntegratedDepth instance: the primitive it references
    _domain_range,       \* per IntegratedDepth instance: IntegratedDepth._domain_range
    _grid_points,        \* per IntegratedDepth instance: IntegratedDepth._grid_points
    heap,                \* the multivariate depth objects, by reference
    call,                \* the call being served: its operation and arguments
    outcome,             \* what the call returned or raised
    trace                \* the collaborator calls the served call has made

vars == <<_distribution, multivariate_depth, _domain_range, _grid_points, heap,
          call, outcome, trace>>
bandVars == <<_distribution>>
integratedVars == <<multivariate_depth, _domain_range, _grid_points, heap>>

Unset == [unset |-> TRUE]
None == [none |-> TRUE]
NoAttribute == <<>>   \* an attribute of sequence type that no fit has set yet
NaN == [nan |-> TRUE]
Idle == [op |-> "idle"]
NoOutcome == [kind |-> "none"]

Raise(exc) == [kind |-> "raise", exc |-> exc]
Return(v) == [kind |-> "return", value |-> v]

----------------------------------------------------------------------------
(* Exact rational arithmetic.                                              *)

Abs(a) == IF a < 0 THEN -a ELSE a

RECURSIVE Gcd(_, _)
Gcd(a, b) == IF b = 0 THEN a ELSE Gcd(b, a % b)

Rat(a, b) ==
    LET s == IF b < 0 THEN -1 ELSE 1
        g == Gcd(Abs(a), Abs(b))
    IN  [n |-> (s * a) \div g, d |-> (s * b) \div g]

Int2Rat(a) == [n |-> a, d |-> 1]
RAdd(x, y) == Rat(x.n * y.d + y.n * x.d, x.d * y.d)
RSub(x, y) == Rat(x.n * y.d - y.n * x.d, x.d * y.d)
RMul(x, y) == Rat(x.n * y.n, x.d * y.d)
RDiv(x, y) == Rat(x.n * y.d, x.d * y.n)
RLe(x, y) == x.n * y.d <= y.n * x.d
RLt(x, y) == x.n * y.d < y.n * x.d

\* Floating point values: a rational or NaN; NaN propagates and compares false.
FAdd(x, y) == IF x = NaN \/ y = NaN THEN NaN ELSE RAdd(x, y)
FSub(x, y) == IF x = NaN \/ y = NaN THEN NaN ELSE RSub(x, y)
FMul(x, y) == IF x = NaN \/ y = NaN THEN NaN ELSE RMul(x, y)
FDiv(x, y) == IF x = NaN \/ y = NaN THEN NaN ELSE RDiv(x, y)
FLe(x, y) == x # NaN /\ y # NaN /\ RLe(x, y)

\* The exact square root of a perfect square.
ISqrt(a) == CHOOSE r \in 0..a : r * r = a

\* np.sqrt: nan for a negative argument (a warning, no exception).
Sqrt(x) ==
    IF x = NaN \/ x.n < 0 THEN NaN ELSE [n |-> ISqrt(x.n), d |-> ISqrt(x.d)]

----------------------------------------------------------------------------
(* Arrays of rank r: a value (rank 0) or a sequence of arrays of rank r-1.  *)

RECURSIVE TScale(_, _, _)
TScale(c, t, rank) ==
    IF rank = 0 THEN FMul(c, t)
    ELSE [i \in DOMAIN t |-> TScale(c, t[i], rank - 1)]

RECURSIVE TAdd(_, _, _)
TAdd(a, b, rank) ==
    IF rank = 0 THEN FAdd(a, b)
    ELSE [i \in DOMAIN a |-> TAdd(a[i], b[i], rank - 1)]

RECURSIVE TAll(_, _, _)
TAll(P(_), t, rank) ==
    IF rank = 0 THEN P(t)
    ELSE \A i \in DOMAIN t : TAll(P, t[i], rank - 1)

----------------------------------------------------------------------------
(* scipy.integrate.simps(y, x=x, axis=1), even='avg', for one row y of the *)
(* array: y[i] is the array of rank `rank` at grid point x[i].             *)

\* One term of _basic_simps: the panel of the points i, i+1, i+2.
SimpsonPanel(y, x, i, rank) ==
    LET h0 == RSub(x[i + 1], x[i])
        h1 == RSub(x[i + 2], x[i + 1])
        hsum == RAdd(h0, h1)
        hprod == RMul(h0, h1)
        h0divh1 == RDiv(h0, h1)
        two == Int2Rat(2)
        w0 == RSub(two, RDiv(Int2Rat(1), h0divh1))
        w1 == RDiv(RMul(hsum, hsum), hprod)
        w2 == RSub(two, h0divh1)
    IN  TScale(RDiv(hsum, Int2Rat(6)),
               TAdd(TAdd(TScale(w0, y[i], rank), TScale(w1, y[i + 1], rank), rank),
                    TScale(w2, y[i + 2], rank), rank),
               rank)

\* _basic_simps(y, start, stop, x): the panels at start, start+2, ... < stop
\* (positions counted from 0, as in the source).
RECURSIVE BasicSimps(_, _, _, _, _)
BasicSimps(y, x, start, stop, rank) ==
    IF start >= stop \/ start + 3 > Len(y)
    THEN TScale(Int2Rat(0), y[1], rank)
    ELSE TAdd(SimpsonPanel(y, x, start + 1, rank),
              BasicSimps(y, x, start + 2, stop, rank), rank)

Simps(y, x, rank) ==
    LET N == Len(y)
        half == Rat(1, 2)
    IN  IF N % 2 = 0
        THEN LET last_dx == RSub(x[N], x[N - 1])
                 first_dx == RSub(x[2], x[1])
                 val == TAdd(TScale(RMul(half, last_dx), TAdd(y[N], y[N - 1], rank), rank),
                             TScale(RMul(half, first_dx), TAdd(y[2], y[1], rank), rank),
                             rank)
                 result == TAdd(BasicSimps(y, x, 0, N - 3, rank),
                                BasicSimps(y, x, 1, N - 2, rank), rank)
             IN  TAdd(TScale(half, result, rank), TScale(half, val, rank), rank)
        ELSE BasicSimps(y, x, 0, N - 2, rank)

----------------------------------------------------------------------------
(* Inputs of the band depth: samples of curves on a shared grid.           *)

MaxN == 3            \* most functions in a reference sample
QuerySizes == {1}    \* the numbers of functions in a query sample
Levels == {0, 1, 2}  \* the values a curve takes
GridIdx == {1, 2}    \* the positions of the shared grid

\* One scalar curve: data_matrix[i] of shape (G, 1).
ScalarCurves == [GridIdx -> [{1} -> Levels]]
\* One vector-valued curve, codomain dimension 2.
VectorCurves == [GridIdx -> [{1, 2} -> {0}]]

SeqsUpTo(S, lo, hi) == UNION {[1..k -> S] : k \in lo..hi}

FDataGrid(m, rows) == [dim_codomain |-> m, data_matrix |-> rows]

ScalarSamples(lo, hi) == {FDataGrid(1, r) : r \in SeqsUpTo(ScalarCurves, lo, hi)}
QuerySamples == {X \in ScalarSamples(1, MaxN) : Len(X.data_matrix) \in QuerySizes}
VectorSamples == {FDataGrid(2, r) : r \in SeqsUpTo(VectorCurves, 1, 1)}

----------------------------------------------------------------------------
(* BandDepth.                                                              *)

\* itertools.combinations(range(1, n + 1), 2), in the order it yields.
RECURSIVE CombinationsFrom(_, _, _)
CombinationsFrom(i, j, n) ==
    IF i >= n THEN <<>>
    ELSE IF j > n THEN CombinationsFrom(i + 1, i + 2, n)
    ELSE <<<<i, j>>>> \o CombinationsFrom(i, j + 1, n)

Combinations2(n) == CombinationsFrom(1, 2, n)

\* A strict comparison in place of <=.
LeqMask_Strict(a, x, b) == a < x /\ x < b

\* (f1.data_matrix <= X.data_matrix) & (X.data_matrix <= f2.data_matrix)
LeqMask(a, x, b) == a <= x /\ x <= b

\* The mask of one pair at one entry of X.data_matrix.
between_range(f1, f2, x, g, c) ==
    LET between_range_1 == LeqMask(f1[g][c], x[g][c], f2[g][c])
        between_range_2 == LeqMask(f2[g][c], x[g][c], f1[g][c])
    IN  between_range_1 \/ between_range_2

\* np.any in place of np.all.
AllAxes_Any(f1, f2, x) ==
    \E g \in DOMAIN x : \E c \in DOMAIN x[g] :
        \/ (f1[g][c] <= x[g][c] /\ x[g][c] <= f2[g][c])
        \/ (f2[g][c] <= x[g][c] /\ x[g][c] <= f1[g][c])

\* np.all(between_range, axis=(1, 2)) for row x of X.data_matrix.
AllAxes(f1, f2, x) ==
    \A g \in DOMAIN x : \A c \in DOMAIN x[g] : between_range(f1, f2, x, g, c)

Bool2Int(b) == IF b THEN 1 ELSE 0

\* num_in starts as the Python int 0 and becomes an ndarray at the first +=.
PyInt(v) == [py |-> "int", v |-> v]
NdArray(v) == [py |-> "ndarray", v |-> v]

\* num_in += np.all(...): int + bool array broadcasts to an int array.
AddMask(num_in, mask) ==
    NdArray([i \in DOMAIN mask |->
        (IF num_in.py = "int" THEN num_in.v ELSE num_in.v[i]) + Bool2Int(mask[i])])

\* The for loop of predict over the remaining pairs.
RECURSIVE PredictLoop(_, _, _, _, _)
PredictLoop(pairs, dist, X, num_in, n_total) ==
    IF pairs = <<>> THEN [num_in |-> num_in, n_total |-> n_total]
    ELSE LET f1 == dist.data_matrix[pairs[1][1]]
             f2 == dist.data_matrix[pairs[1][2]]
             mask == [i \in DOMAIN X.data_matrix |-> AllAxes(f1, f2, X.data_matrix[i])]
         IN  PredictLoop(Tail(pairs), dist, X, AddMask(num_in, mask), n_total + 1)

\* The division as numpy does it for every operand: 0 / 0 is nan.
TrueDivide_Numpy(num_in, n_total) ==
    IF n_total = 0
    THEN Return(IF num_in.py = "int" THEN NaN ELSE [i \in DOMAIN num_in.v |-> NaN])
    ELSE Return(IF num_in.py = "int" THEN Rat(num_in.v, n_total)
                ELSE [i \in DOMAIN num_in.v |-> Rat(num_in.v[i], n_total)])

\* num_in / n_total
TrueDivide(num_in, n_total) ==
    IF num_in.py = "int"
    THEN IF n_total = 0 THEN Raise("ZeroDivisionError")
         ELSE Return(Rat(num_in.v, n_total))
    ELSE IF n_total = 0 THEN Return([i \in DOMAIN num_in.v |-> NaN])
         ELSE Return([i \in DOMAIN num_in.v |-> Rat(num_in.v[i], n_total)])

BandDepthPredictValue(dist, X) ==
    IF dist = Unset THEN Raise("AttributeError")
    ELSE LET r == PredictLoop(Combinations2(Len(dist.data_matrix)), dist, X, PyInt(0), 0)
         IN  TrueDivide(r.num_in, r.n_total)

\* The assignment placed before the check of dim_codomain.
BandDepthFit_StoreFirst(X) ==
    /\ call = Idle
    /\ call' = [op |-> "BandDepth.fit", X |-> X]
    /\ _distribution' = X
    /\ outcome' = IF X.dim_codomain # 1 THEN Raise("NotImplementedError")
                  ELSE Return("self")
    /\ UNCHANGED <<integratedVars, trace>>

BandDepthFit(X) ==
    /\ call = Idle
    /\ call' = [op |-> "BandDepth.fit", X |-> X]
    /\ IF X.dim_codomain # 1
       THEN /\ outcome' = Raise("NotImplementedError")
            /\ UNCHANGED _distribution
       ELSE /\ _distribution' = X
            /\ outcome' = Return("self")
    /\ UNCHANGED <<integratedVars, trace>>

BandDepthPredict(X) ==
    /\ call = Idle
    /\ call' = [op |-> "BandDepth.predict", X |-> X]
    /\ outcome' = BandDepthPredictValue(_distribution, X)
    /\ UNCHANGED <<bandVars, integratedVars, trace>>

----------------------------------------------------------------------------
(* IntegratedDepth and ModifiedBandDepth.                                  *)
(* A sample here has codomain dimension 1 and its data_matrix is written   *)
(* without the codomain axis: data_matrix[m] is an array whose rank is the *)
(* number of domain dimensions.                                            *)

FData(domain_range, grid_points, rows) ==
    [domain_range |-> domain_range, grid_points |-> grid_points, data_matrix |-> rows]

Rats(s) == [i \in DOMAIN s |-> Int2Rat(s[i])]

\* The for loop of predict from the j-th (d, s) of the zip, for one row of
\* the integrand.
RECURSIVE IntegrateLoop(_, _, _, _)
IntegrateLoop(integrand, domain_range, grid_points, j) ==
    IF j > Len(domain_range) \/ j > Len(grid_points) THEN integrand
    ELSE LET d == domain_range[j]
             s == Rats(grid_points[j])
             rank == Len(grid_points) - j
             integrated == Simps(integrand, s, rank)
             interval_len == Int2Rat(d[2] - d[1])
         IN  IntegrateLoop(TScale(RDiv(Int2Rat(1), interval_len), integrated, rank),
                           domain_range, grid_points, j + 1)

\* predict, given what self.multivariate_depth.predict(X.data_matrix) returned.
IntegratedDepthPredictValue(pointwise_depth, X) ==
    [m \in DOMAIN pointwise_depth |->
        IntegrateLoop(pointwise_depth[m], X.domain_range, X.grid_points, 1)]

\* The multivariate depths: their declared bounds and their fit / predict.
DepthKinds == {"FraimanMuniz", "Simplicial"}
DepthMin(kind) == IF kind = "FraimanMuniz" THEN Rat(1, 2) ELSE Rat(0, 1)
DepthMax(kind) == Rat(1, 1)

CountWhere(rows, P(_)) == Cardinality({r \in DOMAIN rows : P(rows[r])})

\* D(x) = 1 - |1/2 - F(x)|, F the empirical distribution function at a point.
FraimanMunizAt(fitted, g, x) ==
    LET F == Rat(CountWhere(fitted, LAMBDA r : r[g] <= x), Len(fitted))
        diff == RSub(Rat(1, 2), F)
    IN  RSub(Int2Rat(1), IF diff.n < 0 THEN RSub(Int2Rat(0), diff) ELSE diff)

\* The fraction of the pairs of sample values whose segment contains x.
SimplicialAt(fitted, g, x) ==
    LET below == CountWhere(fitted, LAMBDA r : r[g] < x)
        above == CountWhere(fitted, LAMBDA r : r[g] > x)
        total == (Len(fitted) * (Len(fitted) - 1)) \div 2
        out == ((below * (below - 1)) \div 2) + ((above * (above - 1)) \div 2)
    IN  IF total = 0 THEN NaN ELSE Rat(total - out, total)

\* multivariate_depth.predict(X.data_matrix), for a one-dimensional domain.
PrimitivePredict(obj, data_matrix) ==
    [m \in DOMAIN data_matrix |->
        [g \in DOMAIN data_matrix[m] |->
            IF obj.kind = "FraimanMuniz"
            THEN FraimanMunizAt(obj.fitted.X, g, data_matrix[m][g])
            ELSE SimplicialAt(obj.fitted.X, g, data_matrix[m][g])]]

\* A.predict(X) in the state (md, hp).
PredictIn(md, hp, e, X) ==
    IF md[e] = None \/ hp[md[e].ref].fitted = Unset THEN Raise("AttributeError")
    ELSE Return(IntegratedDepthPredictValue(PrimitivePredict(hp[md[e].ref], X.data_matrix), X))

\* The default argument is one object, made when the class is defined.
DefaultMultivariateDepth == [ref |-> 1]

\* IntegratedDepth(): self.multivariate_depth = the default argument.
IntegratedDepthInit(e) ==
    /\ call = Idle
    /\ multivariate_depth[e] = None
    /\ multivariate_depth' = [multivariate_depth EXCEPT ![e] = DefaultMultivariateDepth]
    /\ call' = [op |-> "IntegratedDepth.__init__", self |-> e]
    /\ outcome' = Return("self")
    /\ UNCHANGED <<bandVars, _domain_range, _grid_points, heap, trace>>

\* ModifiedBandDepth(): a SimplicialDepth() made by this call.
ModifiedBandDepthInit(e) ==
    /\ call = Idle
    /\ multivariate_depth[e] = None
    /\ heap' = Append(heap, [kind |-> "Simplicial", fitted |-> Unset])
    /\ multivariate_depth' = [multivariate_depth EXCEPT ![e] = [ref |-> Len(heap) + 1]]
    /\ call' = [op |-> "ModifiedBandDepth.__init__", self |-> e]
    /\ outcome' = Return("self")
    /\ UNCHANGED <<bandVars, _domain_range, _grid_points, trace>>

IntegratedDepthFit(e, X) ==
    /\ call = Idle
    /\ multivariate_depth[e] # None
    /\ _domain_range' = [_domain_range EXCEPT ![e] = X.domain_range]
    /\ _grid_points' = [_grid_points EXCEPT ![e] = X.grid_points]
    /\ heap' = [heap EXCEPT ![multivariate_depth[e].ref].fitted = [X |-> X.data_matrix]]
    /\ call' = [op |-> "IntegratedDepth.fit", self |-> e, X |-> X]
    /\ outcome' = Return("self")
    /\ UNCHANGED <<bandVars, multivariate_depth, trace>>

IntegratedDepthPredict(e, X) ==
    /\ call = Idle
    /\ multivariate_depth[e] # None
    /\ call' = [op |-> "IntegratedDepth.predict", self |-> e, X |-> X]
    /\ outcome' = PredictIn(multivariate_depth, heap, e, X)
    /\ UNCHANGED <<bandVars, integratedVars, trace>>

\* predict of estimator e on a query sample X over the grid of the fitted
\* sample, given what its primitive returned for X.data_matrix.
IntegratedDepthPredictGiven(e, pointwise_depth) ==
    LET X == [domain_range |-> _domain_range[e], grid_points |-> _grid_points[e]]
    IN  /\ call = Idle
        /\ call' = [op |-> "IntegratedDepth.predict", self |-> e,
                    kind |-> heap[multivariate_depth[e].ref].kind,
                    pointwise_depth |-> pointwise_depth, X |-> X]
        /\ outcome' = Return(IntegratedDepthPredictValue(pointwise_depth, X))
        /\ UNCHANGED <<bandVars, integratedVars, trace>>

\* The caller takes the outcome; the estimators keep their state.
Done ==
    /\ call # Idle
    /\ call' = Idle
    /\ outcome' = NoOutcome
    /\ trace' = <<>>
    /\ UNCHANGED <<bandVars, integratedVars>>

Estimators == {"A", "B"}

\* The state after the module is imported: the default argument of
\* IntegratedDepth.__init__ has been evaluated, once, into heap[1].
Init ==
    /\ _distribution = Unset
    /\ multivariate_depth = [e \in Estimators |-> None]
    /\ _domain_range = [e \in Estimators |-> NoAttribute]
    /\ _grid_points = [e \in Estimators |-> NoAttribute]
    /\ heap = <<[kind |-> "FraimanMuniz", fitted |-> Unset]>>
    /\ call = Idle
    /\ outcome = NoOutcome
    /\ trace = <<>>

FitScalar == \E X \in ScalarSamples(0, MaxN) : BandDepthFit(X)
FitVector == \E X \in VectorSamples : BandDepthFit(X)
Predict == \E X \in QuerySamples : BandDepthPredict(X)

Next == FitScalar \/ FitVector \/ Predict \/ Done

Spec == Init /\ [][Next]_vars

----------------------------------------------------------------------------
(* Two depth estimators, A and B, constructed, fitted and queried in any   *)
(* order, on samples of two curves over the grid (0, 1, 2) of the domain   *)
(* range (0, 2).                                                           *)

Axis == <<0, 1, 2>>
AxisRange == <<0, 2>>
BinaryCurves == [DOMAIN Axis -> {0, 1}]
FitSamples == {FData(<<AxisRange>>, <<Axis>>, rows) : rows \in [1..2 -> BinaryCurves]}
Queries == {FData(<<AxisRange>>, <<Axis>>, rows) : rows \in [1..1 -> BinaryCurves]}

ConstructDefault == \E e \in Estimators : IntegratedDepthInit(e)
ConstructModifiedBandDepth == \E e \in Estimators : ModifiedBandDepthInit(e)
FitEstimator == \E e \in Estimators : \E X \in FitSamples : IntegratedDepthFit(e, X)
PredictEstimator == \E e \in Estimators : \E X \in Queries : IntegratedDepthPredict(e, X)

NextIntegrated ==
    \/ ConstructDefault
    \/ ConstructModifiedBandDepth
    \/ FitEstimator
    \/ PredictEstimator
    \/ Done

SpecIntegrated == Init /\ [][NextIntegrated]_vars

----------------------------------------------------------------------------
(* predict over every grid and domain range with coordinates in            *)
(* 0..MaxCoord, for every array of pointwise depths within the declared    *)
(* bounds of the primitive.                                                *)

MaxCoord == 4

IncreasingSeqs(len) ==
    {s \in [1..len -> 0..MaxCoord] : \A i \in 1..(len - 1) : s[i] < s[i + 1]}

\* The grids of one domain dimension: strictly increasing, one point or more.
Grids == UNION {IncreasingSeqs(len) : len \in 1..(MaxCoord + 1)}

\* The non-degenerate domain ranges a grid lies in.
RangesOf(s) ==
    {r \in (0..MaxCoord) \X (0..MaxCoord) : r[1] <= s[1] /\ s[Len(s)] <= r[2] /\ r[1] < r[2]}

\* The pointwise depths tried: the two declared bounds of the primitive.
DepthLevels(kind) == {DepthMin(kind), DepthMax(kind)}

\* The axes of a sample: its domain ranges and grids, for one domain
\* dimension (any grid) or for two (grids of two points).
Axes1 == {<<d, s>> : d \in (0..MaxCoord) \X (0..MaxCoord), s \in Grids}
SampleAxes ==
    {[domain_range |-> <<a[1]>>, grid_points |-> <<a[2]>>] :
        a \in {a \in Axes1 : a[1] \in RangesOf(a[2])}}
    \cup
    {[domain_range |-> <<a[1], b[1]>>, grid_points |-> <<a[2], b[2]>>] :
        a \in {a \in Axes1 : Len(a[2]) = 2 /\ a[1] \in RangesOf(a[2])},
        b \in {b \in Axes1 : Len(b[2]) = 2 /\ b[1] \in RangesOf(b[2])}}

\* A fitted primitive whose sample the model leaves open.
Opaque == [opaque |-> TRUE]

\* Estimator A, an IntegratedDepth over a primitive of either kind, after
\* its fit on a sample with any of the axes.
InitAverage ==
    \E kind \in DepthKinds : \E axes \in SampleAxes :
        /\ _distribution = Unset
        /\ multivariate_depth = [e \in Estimators |->
                                   IF e = "A" THEN [ref |-> 2] ELSE None]
        /\ _domain_range = [e \in Estimators |->
                              IF e = "A" THEN axes.domain_range ELSE NoAttribute]
        /\ _grid_points = [e \in Estimators |->
                             IF e = "A" THEN axes.grid_points ELSE NoAttribute]
        /\ heap = <<[kind |-> "FraimanMuniz", fitted |-> Unset],
                    [kind |-> kind, fitted |-> Opaque]>>
        /\ call = Idle
        /\ outcome = NoOutcome
        /\ trace = <<>>

\* The arrays of the shape of the grids with entries in S.
RECURSIVE ArraysOver(_, _, _)
ArraysOver(grid_points, j, S) ==
    IF j > Len(grid_points) THEN S
    ELSE [DOMAIN grid_points[j] -> ArraysOver(grid_points, j + 1, S)]

PredictGiven ==
    \E depths \in ArraysOver(_grid_points["A"], 1,
                              DepthLevels(heap[multivariate_depth["A"].ref].kind)) :
        IntegratedDepthPredictGiven("A", <<depths>>)

NextAverage == PredictGiven \/ Done

SpecAverage == InitAverage /\ [][NextAverage]_vars

----------------------------------------------------------------------------
(* Elastic metrics.  A non-negative real known by its square q is written  *)
(* Root(q); arccos(d) is written Arccos(d): it lies in [0, pi/2] exactly   *)
(* when 0 <= d <= 1.                                                       *)

\* np.sqrt of a scalar: nan for a negative argument.
Root(q) == IF q = NaN \/ q.n < 0 THEN NaN ELSE [root_of |-> q]

\* np.clip(d, lo, hi); nan stays nan.
Clip(d, lo, hi) ==
    IF d = NaN THEN NaN ELSE IF RLt(d, lo) THEN lo ELSE IF RLt(hi, d) THEN hi ELSE d

\* np.arccos; nan stays nan.
Arccos(d) == IF d = NaN THEN NaN ELSE [arccos_of |-> d]

\* _normalize_scale: the affine map of the grid onto [0, 1].
NormalizeScale(t) ==
    [i \in DOMAIN t |-> Rat(t[i] - t[1], t[Len(t)] - t[1])]

\* data[data < 0] = 0
FloorAtZero(data) ==
    [i \in DOMAIN data |-> IF data[i] # NaN /\ data[i].n < 0 THEN Int2Rat(0) ELSE data[i]]

\* The penalty left unscaled by lam.
AmplitudeDistanceValue_NoLam(eval_points, lam, distance, warping_deriv) ==
    IF lam # 0
    THEN LET eval_points_normalized == NormalizeScale(eval_points)
             root == [i \in DOMAIN warping_deriv |-> Sqrt(warping_deriv[i])]
             minus1 == [i \in DOMAIN root |-> FSub(root[i], Int2Rat(1))]
             square == [i \in DOMAIN minus1 |-> FMul(minus1[i], minus1[i])]
             penalty == Simps(square, eval_points_normalized, 0)
         IN  Root(FAdd(distance.root_of, penalty))
    ELSE distance

\* amplitude_distance from the l2 distance of the two SRSFs on: distance is
\* Root(q), warping_deriv the values of warping_.derivative() on the grid.
AmplitudeDistanceValue(eval_points, lam, distance, warping_deriv) ==
    IF lam # 0
    THEN LET eval_points_normalized == NormalizeScale(eval_points)
             root == [i \in DOMAIN warping_deriv |-> Sqrt(warping_deriv[i])]
             minus1 == [i \in DOMAIN root |-> FSub(root[i], Int2Rat(1))]
             square == [i \in DOMAIN minus1 |-> FMul(minus1[i], minus1[i])]
             penalty == Simps(square, eval_points_normalized, 0)
         IN  Root(FAdd(distance.root_of, FMul(Int2Rat(lam), penalty)))
    ELSE distance

\* The collaborators amplitude_distance calls, in order.
AmplitudeDistanceTrace(lam) ==
    <<"_normalize_scale", "ElasticRegistration.fit_transform", "SRSF.fit_transform",
      "SRSF.transform", "l2_distance">>
    \o (IF lam # 0 THEN <<"warping_.derivative", "simps">> ELSE <<>>)

\* phase_distance from the registration on.
PhaseDistanceValue(eval_points, warping_deriv) ==
    LET eval_points_normalized == NormalizeScale(eval_points)
        derivative_warping == [i \in DOMAIN warping_deriv |-> Sqrt(warping_deriv[i])]
        d == Simps(derivative_warping, eval_points_normalized, 0)
    IN  Arccos(Clip(d, Int2Rat(-1), Int2Rat(1)))

\* warping_distance from the two derivatives on.
WarpingDistanceValue(grid_points, warping1_deriv, warping2_deriv) ==
    LET warping1_data == FloorAtZero(warping1_deriv)
        warping2_data == FloorAtZero(warping2_deriv)
        srsf_warping1 == [i \in DOMAIN warping1_data |-> Sqrt(warping1_data[i])]
        srsf_warping2 == [i \in DOMAIN warping2_data |-> Sqrt(warping2_data[i])]
        product == [i \in DOMAIN srsf_warping1 |-> FMul(srsf_warping1[i], srsf_warping2[i])]
        d == Simps(product, NormalizeScale(grid_points), 0)
    IN  Arccos(Clip(d, Int2Rat(-1), Int2Rat(1)))

Called(op) == call.op = op /\ outcome = NoOutcome

amplitude_distance ==
    /\ Called("amplitude_distance")
    /\ outcome' = Return(AmplitudeDistanceValue(call.eval_points, call.lam,
                                                call.distance, call.warping_deriv))
    /\ trace' = AmplitudeDistanceTrace(call.lam)
    /\ UNCHANGED <<bandVars, integratedVars, call>>

phase_distance ==
    /\ Called("phase_distance")
    /\ outcome' = Return(PhaseDistanceValue(call.eval_points, call.warping_deriv))
    /\ trace' = <<"_normalize_scale", "ElasticRegistration.fit_transform",
                  "warping_.derivative", "simps">>
    /\ UNCHANGED <<bandVars, integratedVars, call>>

warping_distance ==
    /\ Called("warping_distance")
    /\ outcome' = Return(WarpingDistanceValue(call.eval_points, call.warping1_deriv,
                                              call.warping2_deriv))
    /\ trace' = <<"normalize_warping", "normalize_warping", "derivative", "derivative",
                  "simps">>
    /\ UNCHANGED <<bandVars, integratedVars, call>>

\* The inputs: grids of 2 to 4 points with coordinates in 0..MaxCoord, warping
\* derivatives with values in DerivValues (a negative one is the artifact of
\* finite differences), penalties lam and squared l2 distances.
DerivValues == {Int2Rat(-1), Int2Rat(0), Int2Rat(1), Int2Rat(4)}
Lams == {0, 1, 2}
Distances == {Root(Int2Rat(0)), Root(Int2Rat(1))}
ElasticGrids(lens) == UNION {IncreasingSeqs(len) : len \in lens}

InitElastic ==
    /\ _distribution = Unset
    /\ multivariate_depth = [e \in Estimators |-> None]
    /\ _domain_range = [e \in Estimators |-> NoAttribute]
    /\ _grid_points = [e \in Estimators |-> NoAttribute]
    /\ heap = <<[kind |-> "FraimanMuniz", fitted |-> Unset]>>
    /\ outcome = NoOutcome
    /\ trace = <<>>
    /\ \E g \in ElasticGrids({2, 3, 4}) :
          \/ \E lam \in Lams : \E distance \in Distances :
               \E warping_deriv \in [DOMAIN g -> DerivValues] :
                 call = [op |-> "amplitude_distance", eval_points |-> g, lam |-> lam,
                         distance |-> distance, warping_deriv |-> warping_deriv]
          \/ \E lam \in Lams : \E warping_deriv \in [DOMAIN g -> DerivValues] :
               call = [op |-> "phase_distance", eval_points |-> g, lam |-> lam,
                       warping_deriv |-> warping_deriv]
          \/ /\ Len(g) <= 3
             /\ \E warping1_deriv \in [DOMAIN g -> DerivValues] :
                  \E warping2_deriv \in [DOMAIN g -> DerivValues] :
                    call = [op |-> "warping_distance", eval_points |-> g,
                            warping1_deriv |-> warping1_deriv,
                            warping2_deriv |-> warping2_deriv]

NextElastic == amplitude_distance \/ phase_distance \/ warping_distance

SpecElastic == InitElastic /\ [][NextElastic]_vars

----------------------------------------------------------------------------
(* Band depth, stated over sets of pairs.                                  *)

Min(a, b) == IF a <= b THEN a ELSE b
Max(a, b) == IF a <= b THEN b ELSE a
Choose2(n) == (n * (n - 1)) \div 2

\* The unordered pairs {a, b} of distinct members of a sample of n functions.
UnorderedPairs(n) == {p \in SUBSET (1..n) : Cardinality(p) = 2}

\* The band of the pair p contains the whole graph of x.
BandContains(rows, p, x) ==
    \A g \in DOMAIN x :
        \E a \in p : \E b \in p :
            /\ a # b
            /\ Min(rows[a][g][1], rows[b][g][1]) <= x[g][1]
            /\ x[g][1] <= Max(rows[a][g][1], rows[b][g][1])

ContainingPairs(rows, x) == {p \in UnorderedPairs(Len(rows)) : BandContains(rows, p, x)}

PredictReturned ==
    /\ call.op = "BandDepth.predict"
    /\ _distribution # Unset

RefSize == Len(_distribution.data_matrix)

\* C1: a BandDepth fitted on N >= 2 scalar functions returns, for every query
\* function x, the number of unordered pairs of distinct reference members
\* whose band contains x at every grid point, divided by C(N, 2).
C1_BandDepthIsPairFraction ==
    (PredictReturned /\ RefSize >= 2) =>
        /\ outcome.kind = "return"
        /\ DOMAIN outcome.value = DOMAIN call.X.data_matrix
        /\ \A i \in DOMAIN call.X.data_matrix :
              outcome.value[i] =
                  Rat(Cardinality(ContainingPairs(_distribution.data_matrix,
                                                  call.X.data_matrix[i])),
                      Choose2(RefSize))

\* A pair contains the query at one grid point and not at another, and
\* counts for nothing: one pair of three contains the whole graph.
C1_Witness ==
    /\ PredictReturned
    /\ RefSize = 3
    /\ outcome.kind = "return"
    /\ outcome.value[1] = Rat(1, 3)
    /\ \E p \in UnorderedPairs(3) :
          /\ ~BandContains(_distribution.data_matrix, p, call.X.data_matrix[1])
          /\ \E g \in GridIdx : \E a \in p : \E b \in p :
                /\ _distribution.data_matrix[a][g][1] < call.X.data_matrix[1][g][1]
                /\ call.X.data_matrix[1][g][1] < _distribution.data_matrix[b][g][1]

\* C2: fit raises when dim_codomain # 1 and then leaves the stored sample as
\* it was; when dim_codomain = 1 it stores X and returns the estimator.
C2_FitContract ==
    [][(call = Idle /\ call'.op = "BandDepth.fit") =>
          IF call'.X.dim_codomain # 1
          THEN /\ outcome'.kind = "raise"
               /\ _distribution' = _distribution
          ELSE /\ outcome' = Return("self")
               /\ _distribution' = call'.X]_vars

\* A fit of vector-valued functions was refused on an estimator that holds
\* an earlier sample of two functions.
C2_Witness ==
    /\ call.op = "BandDepth.fit"
    /\ call.X.dim_codomain = 2
    /\ outcome = Raise("NotImplementedError")
    /\ _distribution # Unset
    /\ Len(_distribution.data_matrix) = 2

----------------------------------------------------------------------------
(* The depth estimators' declared bounds, averaging and isolation.         *)

PredictGivenReturned ==
    /\ call.op = "IntegratedDepth.predict"
    /\ "pointwise_depth" \in DOMAIN call

DomainDimensions == Len(call.X.grid_points)

WithinDeclaredBounds(v) ==
    FLe(DepthMin(call.kind), v) /\ FLe(v, DepthMax(call.kind))

\* C3: every depth score lies within the declared bounds: predict of
\* IntegratedDepth and ModifiedBandDepth returns values in [min, max] whenever
\* the pointwise depths lie in [min, max], on every strictly increasing grid
\* in a non-degenerate domain range; BandDepth with N >= 2 returns values in
\* [0, 1].
C3_DepthWithinDeclaredBounds ==
    /\ (/\ PredictGivenReturned
        /\ \A m \in DOMAIN call.pointwise_depth :
              TAll(WithinDeclaredBounds, call.pointwise_depth[m], DomainDimensions))
       => \A m \in DOMAIN outcome.value : WithinDeclaredBounds(outcome.value[m])
    /\ (PredictReturned /\ RefSize >= 2)
       => \A i \in DOMAIN outcome.value :
              FLe(Rat(0, 1), outcome.value[i]) /\ FLe(outcome.value[i], Rat(1, 1))

\* C7: predict returns the average of the pointwise depth over the domain:
\* pointwise depths equal to a constant c at every grid point give the score
\* c, for every number of domain dimensions and every strictly increasing
\* grid in a non-degenerate domain range.
C7_ConstantDepthIsItsAverage ==
    PredictGivenReturned =>
        \A c \in DepthLevels(call.kind) :
            \A m \in DOMAIN call.pointwise_depth :
                TAll(LAMBDA v : v = c, call.pointwise_depth[m], DomainDimensions)
                    => outcome.value[m] = c

OnEstimator(e) ==
    /\ call = Idle
    /\ call'.op \in {"IntegratedDepth.__init__", "ModifiedBandDepth.__init__",
                     "IntegratedDepth.fit", "IntegratedDepth.predict"}
    /\ call'.self = e

\* C6: depth estimators share no mutable state: once A is fitted, no
\* construction, fit or predict on another instance changes what A.predict
\* returns, for any query.
C6_EstimatorsShareNoState ==
    [][\A a \in Estimators : \A b \in Estimators \ {a} :
          (OnEstimator(b) /\ _domain_range[a] # NoAttribute)
          => \A Q \in Queries :
                 PredictIn(multivariate_depth', heap', a, Q)
                     = PredictIn(multivariate_depth, heap, a, Q)]_vars

\* C9: predict on a reference sample of fewer than 2 functions ends in an
\* error; it returns no value, NaN or other.
C9_TooFewFunctionsRaises ==
    (PredictReturned /\ RefSize < 2) => outcome.kind = "raise"

C9_Witness ==
    /\ PredictReturned
    /\ RefSize = 1
    /\ outcome = Raise("ZeroDivisionError")

\* C10: a query function equal at every grid point to a member of the
\* reference sample of N >= 2 functions has band depth at least 2 / N, hence
\* not 0.
C10_MemberDepthAtLeastTwoOverN ==
    (PredictReturned /\ RefSize >= 2) =>
        \A i \in DOMAIN call.X.data_matrix :
            (\E k \in 1..RefSize :
                 _distribution.data_matrix[k] = call.X.data_matrix[i]) =>
                /\ outcome.kind = "return"
                /\ RLe(Rat(2, RefSize), outcome.value[i])
                /\ outcome.value[i] # Rat(0, 1)

\* The bound is met: a member of a sample of three has depth exactly 2/3.
C10_Witness ==
    /\ PredictReturned
    /\ RefSize = 3
    /\ \E k \in 1..3 : _distribution.data_matrix[k] = call.X.data_matrix[1]
    /\ outcome.kind = "return"
    /\ outcome.value[1] = Rat(2, 3)

----------------------------------------------------------------------------
(* Elastic distances.                                                      *)

ElasticReturned(op) == call.op = op /\ outcome.kind = "return"

HasNegative(data) == \E i \in DOMAIN data : data[i].n < 0

SeqRange(q) == {q[i] : i \in DOMAIN q}

\* C4: in amplitude_distance with a non-zero penalty, in phase_distance and in
\* warping_distance the distance returned for a warping derivative with
\* negative values is the distance obtained with those values replaced by 0.
C4_NegativeDerivativeIsFloored ==
    /\ ElasticReturned("amplitude_distance") /\ call.lam # 0 =>
         outcome.value = AmplitudeDistanceValue(call.eval_points, call.lam, call.distance,
                                                FloorAtZero(call.warping_deriv))
    /\ ElasticReturned("phase_distance") =>
         outcome.value = PhaseDistanceValue(call.eval_points,
                                            FloorAtZero(call.warping_deriv))
    /\ ElasticReturned("warping_distance") =>
         outcome.value = WarpingDistanceValue(call.eval_points,
                                              FloorAtZero(call.warping1_deriv),
                                              FloorAtZero(call.warping2_deriv))

\* C5: phase_distance and warping_distance return a value in [0, pi/2], that
\* is the arccos of a number d with 0 <= d <= 1.
C5_DistanceInQuarterTurn ==
    ElasticReturned("phase_distance") \/ ElasticReturned("warping_distance") =>
        /\ outcome.value # NaN
        /\ RLe(Int2Rat(0), outcome.value.arccos_of)
        /\ RLe(outcome.value.arccos_of, Int2Rat(1))

PenaltyIntegrand(v) ==
    LET r == ISqrt(v.n) IN Rat((r - 1) * (r - 1), 1)

\* C8: amplitude_distance with lam = 0 returns the l2 distance d of the SRSFs
\* and never evaluates the warping derivative; with lam > 0 it returns
\* sqrt(d^2 + lam * R), R the quadrature of (sqrt(gamma') - 1)^2 over the
\* normalized grid (gamma' >= 0 on the grid).
C8_AmplitudeDistancePenalty ==
    ElasticReturned("amplitude_distance") =>
        IF call.lam = 0
        THEN /\ outcome.value = call.distance
             /\ "warping_.derivative" \notin SeqRange(trace)
        ELSE ~HasNegative(call.warping_deriv) =>
                LET R == Simps([i \in DOMAIN call.warping_deriv |->
                                   PenaltyIntegrand(call.warping_deriv[i])],
                               NormalizeScale(call.eval_points), 0)
                    sum == RAdd(call.distance.root_of, RMul(Rat(call.lam, 1), R))
                IN  /\ outcome.value = (IF sum.n < 0 THEN NaN ELSE [root_of |-> sum])
                    /\ "warping_.derivative" \in SeqRange(trace)

\* amplitude_distance has returned sqrt(1 + 2 * R) with R > 0.
C8_Witness ==
    /\ ElasticReturned("amplitude_distance")
    /\ call.lam = 2
    /\ call.distance = Root(Int2Rat(1))
    /\ ~HasNegative(call.warping_deriv)
    /\ outcome.value # NaN
    /\ RLt(Int2Rat(1), outcome.value.root_of)

====
